---- MODULE Spec2Model ----
(***************************************************************************)
(* lem-in: parse an ant-farm description, enumerate and select start-to-end *)
(* paths, distribute the ants over the selected paths and simulate their    *)
(* movement turn by turn.                                                   *)
(*                                                                          *)
(* The pipeline modelled is the one main() runs (src/utils/readInput.go):   *)
(* parser.ParseInput, pathfinder.FindPaths (with optimizePaths),            *)
(* simulator.SimulateMovement.                                              *)
(*                                                                          *)
(* float64 values are modelled as exact fractions <<n, d>>; d = 0 encodes   *)
(* the IEEE values NaN (<<0,0>>) and +/-Inf (<<1,0>>, <<-1,0>>).            *)
(* Text lines are sequences of one-character strings.                       *)
(* sort.Slice is modelled as the insertion sort the Go runtime runs on      *)
(* slices of at most 12 elements (every slice sorted here is shorter).      *)
(***************************************************************************)
EXTENDS Integers, Sequences, FiniteSets, TLC

(* ------------------------------ bounds ---------------------------------- *)

\* largest ant count written on the first line of a generated file
MaxAnts == 4
\* largest number of tunnel lines in a generated colony file
MaxTunnels == 6
\* largest number of lines after the ant line in a free-form file
MaxFreeLines == 5

(* --------------------------- float64 values ----------------------------- *)

Abs(x) == IF x < 0 THEN -x ELSE x

Sign(x) == IF x < 0 THEN -1 ELSE IF x > 0 THEN 1 ELSE 0

RECURSIVE GCD(_, _)
GCD(a, b) == IF b = 0 THEN a ELSE GCD(b, a % b)

\* the float64 value n/d
Frac(n, d) ==
    IF d = 0 THEN <<Sign(n), 0>>
    ELSE LET g == GCD(Abs(n), Abs(d))
             s == IF d < 0 THEN -1 ELSE 1
         IN  <<(s * n) \div g, (s * d) \div g>>

Float(i) == <<i, 1>>

NaN == <<0, 0>>

IsNaN(a) == a = NaN

FAdd(a, b) ==
    IF a[2] = 0 /\ b[2] = 0 THEN (IF a = b THEN a ELSE NaN)
    ELSE Frac(a[1] * b[2] + b[1] * a[2], a[2] * b[2])

FNeg(a) == <<-a[1], a[2]>>

FSub(a, b) == FAdd(a, FNeg(b))

FMul(a, b) == Frac(a[1] * b[1], a[2] * b[2])

FDiv(a, b) ==
    IF IsNaN(a) \/ IsNaN(b) THEN NaN
    ELSE IF b[2] = 0 THEN (IF a[2] = 0 THEN NaN ELSE Float(0))
    ELSE IF a[2] = 0 THEN <<a[1] * (IF b[1] < 0 THEN -1 ELSE 1), 0>>
    ELSE IF b[1] = 0 THEN <<Sign(a[1]), 0>>
    ELSE Frac(a[1] * b[2] * Sign(b[1]), a[2] * Abs(b[1]))

\* a < b on float64: false whenever an operand is NaN
FLess(a, b) ==
    /\ ~IsNaN(a)
    /\ ~IsNaN(b)
    /\ IF a[2] = 0 /\ b[2] = 0 THEN a[1] < b[1]
       ELSE IF a[2] = 0 THEN a[1] < 0
       ELSE IF b[2] = 0 THEN b[1] > 0
       ELSE a[1] * b[2] < b[1] * a[2]

\* math.Min, math.Max: NaN if an operand is NaN
FMin(a, b) == IF IsNaN(a) \/ IsNaN(b) THEN NaN ELSE IF FLess(b, a) THEN b ELSE a

FMax(a, b) == IF IsNaN(a) \/ IsNaN(b) THEN NaN ELSE IF FLess(a, b) THEN b ELSE a

\* int(x) of a finite float64: truncation toward zero
FTrunc(a) == IF a[1] >= 0 THEN a[1] \div a[2] ELSE -((-a[1]) \div a[2])

\* int(math.Ceil(x)) of a finite float64
FCeil(a) == -((-a[1]) \div a[2])

\* int(math.Sqrt(float64(n))) for n >= 0
RECURSIVE ISqrtFrom(_, _)
ISqrtFrom(n, r) == IF (r + 1) * (r + 1) > n THEN r ELSE ISqrtFrom(n, r + 1)

ISqrt(n) == ISqrtFrom(n, 0)

\* the literals of the source
F01 == Frac(1, 10)
F02 == Frac(2, 10)
F03 == Frac(3, 10)
F04 == Frac(4, 10)
F05 == Frac(5, 10)
F06 == Frac(6, 10)
F08 == Frac(8, 10)
F15 == Frac(15, 10)

(* ------------------------------ strings --------------------------------- *)

Digits == <<"0", "1", "2", "3", "4", "5", "6", "7", "8", "9">>

IsDigit(ch) == \E i \in 1..10 : Digits[i] = ch

DigitVal(ch) == (CHOOSE i \in 1..10 : Digits[i] = ch) - 1

IsSpace(ch) == ch \in {" ", "\t"}

\* the string a sequence of characters spells
RECURSIVE Str(_)
Str(cs) == IF cs = <<>> THEN "" ELSE Head(cs) \o Str(Tail(cs))

\* strings.HasPrefix
HasPrefix(line, p) == Len(line) >= Len(p) /\ SubSeq(line, 1, Len(p)) = p

\* strings.Contains(line, ch) for a one-character ch
Contains(line, ch) == \E i \in 1..Len(line) : line[i] = ch

\* strings.Split(line, sep) for a one-character sep
RECURSIVE SplitFrom(_, _, _)
SplitFrom(line, sep, cur) ==
    IF line = <<>> THEN <<cur>>
    ELSE IF Head(line) = sep THEN <<cur>> \o SplitFrom(Tail(line), sep, <<>>)
    ELSE SplitFrom(Tail(line), sep, Append(cur, Head(line)))

Split(line, sep) == SplitFrom(line, sep, <<>>)

\* strings.Fields
RECURSIVE FieldsFrom(_, _)
FieldsFrom(line, cur) ==
    IF line = <<>> THEN (IF cur = <<>> THEN <<>> ELSE <<cur>>)
    ELSE IF IsSpace(Head(line))
         THEN (IF cur = <<>> THEN <<>> ELSE <<cur>>) \o FieldsFrom(Tail(line), <<>>)
    ELSE FieldsFrom(Tail(line), Append(cur, Head(line)))

Fields(line) == FieldsFrom(line, <<>>)

RECURSIVE DigitsVal(_, _)
DigitsVal(cs, acc) ==
    IF cs = <<>> THEN acc ELSE DigitsVal(Tail(cs), 10 * acc + DigitVal(Head(cs)))

\* strconv.Atoi: an optional sign, then one or more decimal digits
Atoi(cs) ==
    LET signed == cs # <<>> /\ Head(cs) \in {"+", "-"}
        ds     == IF signed THEN Tail(cs) ELSE cs
    IN  IF ds = <<>> \/ \E i \in 1..Len(ds) : ~IsDigit(ds[i])
        THEN [ok |-> FALSE, val |-> 0]
        ELSE [ok |-> TRUE,
              val |-> IF signed /\ Head(cs) = "-" THEN -DigitsVal(ds, 0)
                      ELSE DigitsVal(ds, 0)]

\* strconv.Itoa, used to write the input files
RECURSIVE ItoaNat(_)
ItoaNat(n) == IF n < 10 THEN <<Digits[n + 1]>> ELSE Append(ItoaNat(n \div 10), Digits[(n % 10) + 1])

Itoa(n) == IF n < 0 THEN <<"-">> \o ItoaNat(-n) ELSE ItoaNat(n)

(* ------------------------------- colony --------------------------------- *)

\* the message of every fmt.Errorf of the parser and of the error line of
\* SimulateMovement and main
ErrMsg == "ERROR: invalid data format"

\* a nil error
NoError == "<nil>"

\* colony.NewColony
NewColony ==
    [NumAnts |-> 0, Rooms |-> <<>>, Tunnels |-> <<>>, Start |-> "", End |-> "",
     Input |-> <<>>]

StartMark == <<"#", "#", "s", "t", "a", "r", "t">>

EndMark == <<"#", "#", "e", "n", "d">>

HasRoom(c, name) == name \in DOMAIN c.Rooms

\* parseAnts, given the line scanner.Scan() produced
parseAnts(line, c) ==
    LET a == Atoi(line)
    IN  IF ~a.ok \/ a.val <= 0 THEN [err |-> ErrMsg, c |-> c]
        ELSE [err |-> NoError,
              c |-> [c EXCEPT !.NumAnts = a.val, !.Input = Append(@, line)]]

\* parseRoom
parseRoom(line, isStart, isEnd, c) ==
    LET parts == Fields(line)
    IN  IF Len(parts) # 3 THEN [err |-> ErrMsg, c |-> c]
        ELSE LET name == parts[1]
                 x    == Atoi(parts[2])
                 y    == Atoi(parts[3])
             IN  IF HasPrefix(name, <<"L">>) \/ HasPrefix(name, <<"#">>)
                    THEN [err |-> ErrMsg, c |-> c]
                 ELSE IF ~x.ok THEN [err |-> ErrMsg, c |-> c]
                 ELSE IF ~y.ok THEN [err |-> ErrMsg, c |-> c]
                 ELSE LET room == [Name |-> Str(name), X |-> x.val, Y |-> y.val,
                                   IsStart |-> isStart, IsEnd |-> isEnd]
                      IN  [err |-> NoError,
                           c |-> [c EXCEPT
                                    !.Start = IF isStart THEN Str(name) ELSE @,
                                    !.End = IF isEnd THEN Str(name) ELSE @,
                                    !.Rooms = (Str(name) :> room) @@ @]]

\* parseTunnel
parseTunnel(line, c) ==
    LET parts == Split(line, "-")
    IN  IF Len(parts) # 2 THEN [err |-> ErrMsg, c |-> c]
        ELSE IF ~HasRoom(c, Str(parts[1])) THEN [err |-> ErrMsg, c |-> c]
        ELSE IF ~HasRoom(c, Str(parts[2])) THEN [err |-> ErrMsg, c |-> c]
        ELSE [err |-> NoError,
              c |-> [c EXCEPT !.Tunnels =
                        Append(@, [From |-> Str(parts[1]), To |-> Str(parts[2])])]]

\* one iteration of the loop of parseRoomsAndTunnels on the line just scanned:
\* the colony, the two flags and whether the loop returned an error
parseLine(line, c0, es, ee) ==
    LET c == [c0 EXCEPT !.Input = Append(@, line)]
    IN  IF line = <<>> THEN [err |-> NoError, c |-> c, es |-> es, ee |-> ee]
        ELSE IF line = StartMark THEN [err |-> NoError, c |-> c, es |-> TRUE, ee |-> ee]
        ELSE IF line = EndMark THEN [err |-> NoError, c |-> c, es |-> es, ee |-> TRUE]
        ELSE IF HasPrefix(line, <<"#">>) THEN [err |-> NoError, c |-> c, es |-> es, ee |-> ee]
        ELSE IF Contains(line, "-")
             THEN LET t == parseTunnel(line, c)
                  IN  [err |-> t.err, c |-> t.c, es |-> es, ee |-> ee]
        ELSE LET r == parseRoom(line, es, ee, c)
             IN  IF r.err # NoError THEN [err |-> r.err, c |-> r.c, es |-> es, ee |-> ee]
                 ELSE [err |-> NoError, c |-> r.c,
                       es |-> IF es THEN FALSE ELSE es,
                       ee |-> IF es THEN ee ELSE IF ee THEN FALSE ELSE ee]

\* mutant of MissingStartOrEnd: only the start is checked
MissingStartOnly(c) == c.Start = ""

\* the check ParseInput makes once both parse functions returned
MissingStartOrEnd(c) == c.Start = "" \/ c.End = ""

(* ------------------------------ sort.Slice ------------------------------ *)

\* less(j, j-1) of the three sorts: ascending or descending on a float64 key
KeyLess(x, y, desc) == IF desc THEN FLess(y.key, x.key) ELSE FLess(x.key, y.key)

Swap(s, i, j) == [s EXCEPT ![i] = s[j], ![j] = s[i]]

\* the inner loop of insertion sort: element j moves left while it is less
RECURSIVE SiftLeft(_, _, _)
SiftLeft(s, j, desc) ==
    IF j > 1 /\ KeyLess(s[j], s[j - 1], desc)
    THEN SiftLeft(Swap(s, j, j - 1), j - 1, desc)
    ELSE s

RECURSIVE InsertionSortFrom(_, _, _)
InsertionSortFrom(s, i, desc) ==
    IF i > Len(s) THEN s ELSE InsertionSortFrom(SiftLeft(s, i, desc), i + 1, desc)

\* sort.Slice on a slice of records with a key field (fewer than 12 of them)
SortSlice(s, desc) == InsertionSortFrom(s, 2, desc)

(* ---------------------------- path enumerator --------------------------- *)

\* countConnections
countConnections(c, room) ==
    Cardinality({i \in 1..Len(c.Tunnels) :
                    c.Tunnels[i].From = room \/ c.Tunnels[i].To = room})

\* the score sortRoomsByPotential compares
potential(c, room, end) ==
    LET r    == c.Rooms[room]
        e    == c.Rooms[end]
        dist == Abs(r.X - e.X) + Abs(r.Y - e.Y)
    IN  FDiv(Float(dist), FAdd(Float(1), Float(countConnections(c, room))))

\* sortRoomsByPotential
sortRoomsByPotential(rooms, c, end) ==
    LET keyed  == [i \in 1..Len(rooms) |->
                      [item |-> rooms[i], key |-> potential(c, rooms[i], end)]]
        sorted == SortSlice(keyed, FALSE)
    IN  [i \in 1..Len(rooms) |-> sorted[i].item]

\* getNextRooms
RECURSIVE getNextRoomsFrom(_, _, _, _)
getNextRoomsFrom(c, current, visited, i) ==
    IF i > Len(c.Tunnels) THEN <<>>
    ELSE LET t    == c.Tunnels[i]
             next == IF t.From = current THEN t.To
                     ELSE IF t.To = current THEN t.From ELSE ""
         IN  (IF next # "" /\ next \notin visited THEN <<next>> ELSE <<>>)
                 \o getNextRoomsFrom(c, current, visited, i + 1)

getNextRooms(c, current, visited) == getNextRoomsFrom(c, current, visited, 1)

\* a Go slice of strings: a backing array of the heap, a length and a capacity
SliceSeq(heap, s) == SubSeq(heap[s.arr], 1, s.len)

\* append(path, x): in place when the capacity allows, else into a new array
\* of twice the capacity
AppendSlice(heap, s, x) ==
    IF s.len < s.cap
    THEN [heap |-> [heap EXCEPT ![s.arr][s.len + 1] = x],
          s    |-> [s EXCEPT !.len = @ + 1]]
    ELSE LET newcap == IF s.cap = 0 THEN 1 ELSE 2 * s.cap
             new    == [i \in 1..newcap |->
                           IF i <= s.len THEN heap[s.arr][i]
                           ELSE IF i = s.len + 1 THEN x ELSE ""]
         IN  [heap |-> Append(heap, new),
              s    |-> [arr |-> Len(heap) + 1, len |-> s.len + 1, cap |-> newcap]]

\* mutant of recordPath: the slice itself is recorded, without the copy
recordPathAlias(st, path) == [st EXCEPT !.paths = Append(@, path)]

\* pathCopy := make(Path, len(path)); copy(pathCopy, path);
\* *paths = append(*paths, pathCopy): the recorded path is a slice of an
\* array of its own
recordPath(st, path) ==
    [st EXCEPT !.heap = Append(@, SliceSeq(st.heap, path)),
               !.paths = Append(@, [arr |-> Len(st.heap) + 1, len |-> path.len,
                                    cap |-> path.len])]

\* dfs (src/unnamed/part_000): st holds the heap of backing arrays, the shared
\* visited map and the slices recorded so far
RECURSIVE dfs(_, _, _, _)
RECURSIVE dfsEach(_, _, _, _, _)
\* mutant of dfs: the room is not removed from the visited map on return
dfsKeepVisited(c, current, path, st) ==
    IF current = c.End
    THEN recordPath(st, path)
    ELSE LET st1       == [st EXCEPT !.visited = @ \cup {current}]
             nextRooms == sortRoomsByPotential(
                              getNextRooms(c, current, st1.visited), c, c.End)
         IN  dfsEach(c, nextRooms, 1, path, st1)

dfs(c, current, path, st) ==
    IF current = c.End
    THEN recordPath(st, path)
    ELSE LET st1       == [st EXCEPT !.visited = @ \cup {current}]
             nextRooms == sortRoomsByPotential(
                              getNextRooms(c, current, st1.visited), c, c.End)
             st2       == dfsEach(c, nextRooms, 1, path, st1)
         IN  [st2 EXCEPT !.visited = @ \ {current}]

dfsEach(c, nextRooms, i, path, st) ==
    IF i > Len(nextRooms) THEN st
    ELSE LET a == AppendSlice(st.heap, path, nextRooms[i])
         IN  dfsEach(c, nextRooms, i + 1, path,
                     dfs(c, nextRooms[i], a.s, [st EXCEPT !.heap = a.heap]))

\* the first half of FindPaths: dfs from Path{c.Start} with an empty visited map
enumeratePaths(c) ==
    LET st == dfs(c, c.Start, [arr |-> 1, len |-> 1, cap |-> 1],
                  [heap |-> << <<c.Start>> >>, visited |-> {}, paths |-> <<>>])
    IN  [i \in 1..Len(st.paths) |-> SliceSeq(st.heap, st.paths[i])]

\* dfs of src/pkg/pathfinder/pathfinder.go: the tunnels are followed in the
\* order of c.Tunnels, each tested against the visited map when it is reached
RECURSIVE dfsTunnels(_, _, _, _)
RECURSIVE dfsEachTunnel(_, _, _, _, _)
dfsTunnels(c, current, path, st) ==
    IF current = c.End
    THEN recordPath(st, path)
    ELSE LET st1 == [st EXCEPT !.visited = @ \cup {current}]
             st2 == dfsEachTunnel(c, current, path, 1, st1)
         IN  [st2 EXCEPT !.visited = @ \ {current}]

dfsEachTunnel(c, current, path, i, st) ==
    IF i > Len(c.Tunnels) THEN st
    ELSE LET t    == c.Tunnels[i]
             next == IF t.From = current THEN t.To
                     ELSE IF t.To = current THEN t.From ELSE ""
         IN  IF next # "" /\ next \notin st.visited
             THEN LET a == AppendSlice(st.heap, path, next)
                  IN  dfsEachTunnel(c, current, path, i + 1,
                          dfsTunnels(c, next, a.s, [st EXCEPT !.heap = a.heap]))
             ELSE dfsEachTunnel(c, current, path, i + 1, st)

\* the paths that dfs records, before FindPaths of pathfinder.go sorts them
enumeratePathsByTunnel(c) ==
    LET st == dfsTunnels(c, c.Start, [arr |-> 1, len |-> 1, cap |-> 1],
                  [heap |-> << <<c.Start>> >>, visited |-> {}, paths |-> <<>>])
    IN  [i \in 1..Len(st.paths) |-> SliceSeq(st.heap, st.paths[i])]

(* ------------------------- path scorer and selector --------------------- *)

\* path[1:len(path)-1]
Interior(path) == SubSeq(path, 2, Len(path) - 1)

\* the counting loop shared by calculateIndependenceScore and countSharedRooms:
\* the elements of the interior of path2 that are in the interior of path1
countSharedRooms(path1, path2) ==
    LET shared == {Interior(path1)[i] : i \in 1..Len(Interior(path1))}
    IN  Cardinality({i \in 1..Len(Interior(path2)) : Interior(path2)[i] \in shared})

\* calculateIndependenceScore
RECURSIVE totalOverlapFrom(_, _, _)
totalOverlapFrom(path, otherPaths, i) ==
    IF i > Len(otherPaths) THEN 0
    ELSE LET other == otherPaths[i]
         IN  (IF other[1] = path[1] /\ other[Len(other)] = path[Len(path)]
              THEN 0
              ELSE countSharedRooms(path, other))
                 + totalOverlapFrom(path, otherPaths, i + 1)

calculateIndependenceScore(path, otherPaths) ==
    IF Len(otherPaths) = 0 THEN Float(100)
    ELSE FDiv(Float(100), FAdd(Float(1), Float(totalOverlapFrom(path, otherPaths, 1))))

\* the sum of the tunnel counts of the interior rooms of a path
RECURSIVE connectionSum(_, _, _)
connectionSum(c, rooms, i) ==
    IF i > Len(rooms) THEN Float(0)
    ELSE FAdd(Float(countConnections(c, rooms[i])), connectionSum(c, rooms, i + 1))

\* calculateBottleneckScore
calculateBottleneckScore(path, c) ==
    IF Len(path) <= 2 THEN Float(100)
    ELSE FMul(FDiv(connectionSum(c, Interior(path), 1), Float(Len(path) - 2)),
              Float(20))

\* math.Sqrt of a perfect square (the rooms of every colony read here have
\* coordinates that make dx*dx + dy*dy one)
FSqrt(n) == Float(ISqrt(n))

RECURSIVE deviationSum(_, _, _, _, _, _)
deviationSum(c, rooms, i, dx, dy, length) ==
    IF i > Len(rooms) THEN Float(0)
    ELSE LET room == c.Rooms[rooms[i]]
             s    == c.Rooms[c.Start]
             dev  == FDiv(Float(Abs((room.X - s.X) * dy - (room.Y - s.Y) * dx)), length)
         IN  FAdd(dev, deviationSum(c, rooms, i + 1, dx, dy, length))

\* calculatePositionScore
calculatePositionScore(path, c) ==
    LET startRoom == c.Rooms[c.Start]
        endRoom   == c.Rooms[c.End]
        dx        == endRoom.X - startRoom.X
        dy        == endRoom.Y - startRoom.Y
        length    == FSqrt(dx * dx + dy * dy)
    IN  IF length = Float(0) THEN Float(100)
        ELSE LET total == deviationSum(c, Interior(path), 1, dx, dy, length)
                 avg   == FDiv(total, Float(Len(path) - 2))
             IN  FDiv(Float(100), FAdd(Float(1), avg))

\* calculatePathScore
calculatePathScore(path, c, otherPaths) ==
    LET baseScore == FDiv(Float(100), Float(Len(path)))
    IN  FAdd(FAdd(FAdd(FMul(baseScore, F04),
                       FMul(calculateIndependenceScore(path, otherPaths), F03)),
                  FMul(calculateBottleneckScore(path, c), F02)),
             FMul(calculatePositionScore(path, c), F01))

\* append(paths[:i], paths[i+1:]...) on the backing array of paths (i counted
\* from 1): the elements after i move one place left, the last one stays
RemoveInPlace(arr, i) ==
    [k \in 1..Len(arr) |-> IF k >= i /\ k < Len(arr) THEN arr[k + 1] ELSE arr[k]]

\* the scoring loop of optimizePaths: `range paths` reads element i of the
\* backing array as the earlier iterations left it
RECURSIVE scorePaths(_, _, _)
scorePaths(arr, i, c) ==
    IF i > Len(arr) THEN <<>>
    ELSE LET path       == arr[i]
             arr2       == RemoveInPlace(arr, i)
             otherPaths == SubSeq(arr2, 1, Len(arr) - 1)
         IN  <<[path       |-> path,
                key        |-> calculatePathScore(path, c, otherPaths),
                bottleneck |-> calculateBottleneckScore(path, c)]>>
                 \o scorePaths(arr2, i + 1, c)

\* mutant of overlapCheck: no candidate is turned down for its overlap
overlapCheckNone(path, optimized, k, total) ==
    [isUseful |-> TRUE, totalOverlap |-> 0]

\* one iteration of the overlap loop over the accepted paths
RECURSIVE overlapCheck(_, _, _, _)
overlapCheck(path, optimized, k, total) ==
    IF k > Len(optimized) THEN [isUseful |-> TRUE, totalOverlap |-> total]
    ELSE LET overlap == countSharedRooms(path, optimized[k])
             maxAllowedOverlap == (Len(path) + Len(optimized[k])) \div 8
         IN  IF overlap > maxAllowedOverlap
             THEN [isUseful |-> FALSE, totalOverlap |-> total + overlap]
             ELSE overlapCheck(path, optimized, k + 1, total + overlap)

\* mutant of selectPaths: the loop does not stop at the target count
RECURSIVE selectPathsNoTarget(_, _, _, _)
selectPathsNoTarget(pathScores, i, targetPaths, optimized) ==
    IF i > Len(pathScores) THEN optimized
    ELSE LET ps == pathScores[i]
             ch == overlapCheck(ps.path, optimized, 1, 0)
         IN  selectPathsNoTarget(pathScores, i + 1, targetPaths,
                 IF ch.isUseful /\ (ch.totalOverlap <= Len(optimized) \/ Len(optimized) < 2)
                 THEN Append(optimized, ps.path)
                 ELSE optimized)

\* the selection loop of optimizePaths
RECURSIVE selectPaths(_, _, _, _)
selectPaths(pathScores, i, targetPaths, optimized) ==
    IF i > Len(pathScores) THEN optimized
    ELSE IF i - 1 >= targetPaths /\ Len(optimized) >= 2 THEN optimized
    ELSE LET ps == pathScores[i]
             ch == overlapCheck(ps.path, optimized, 1, 0)
         IN  selectPaths(pathScores, i + 1, targetPaths,
                 IF ch.isUseful /\ (ch.totalOverlap <= Len(optimized) \/ Len(optimized) < 2)
                 THEN Append(optimized, ps.path)
                 ELSE optimized)

\* the candidate list optimizePaths sorts
scoredPaths(paths, c) == scorePaths(paths, 1, c)

\* optimizePaths
optimizePaths(paths, c) ==
    IF Len(paths) = 0 THEN paths
    ELSE LET pathScores  == SortSlice(scoredPaths(paths, c), TRUE)
             targetPaths == ISqrt(c.NumAnts) + 1
             optimized   == selectPaths(pathScores, 1, targetPaths, <<>>)
         IN  IF Len(optimized) = 0 THEN <<pathScores[1].path>> ELSE optimized

(* ---------------------------- ant distributor --------------------------- *)

\* math.MaxFloat64: every finite time estimate is below it, NaN is not
MaxFloat64 == <<1, 0>>

\* a slot of the ants slice that distributeAnts never assigned (a nil *Ant)
NilAnt == [ID |-> 0, Path |-> <<>>, PathIndex |-> 0, Position |-> -1, Delay |-> 0]

\* calculatePathEfficiency
calculatePathEfficiency(path, c) ==
    IF Len(path) <= 2 THEN Float(1)
    ELSE LET lengthFactor == FDiv(Float(1), Float(Len(path)))
             avg          == FDiv(connectionSum(c, Interior(path), 1), Float(Len(path) - 2))
             connectivityFactor == FMin(FDiv(avg, Float(4)), Float(1))
         IN  FAdd(FMul(lengthFactor, F06), FMul(connectivityFactor, F04))

\* initializePathStates
initializePathStates(paths, c) ==
    [i \in 1..Len(paths) |->
        [path       |-> paths[i],
         antsCount  |-> 0,
         lastAntEnd |-> Float(Len(paths[i]) - 1),
         efficiency |-> calculatePathEfficiency(paths[i], c)]]

\* calculateTimeEstimate
calculateTimeEstimate(state, remainingAnts) ==
    LET pathLength       == Float(Len(state.path) - 1)
        currentLoad      == Float(state.antsCount)
        baseTime         == pathLength
        interferenceTime == FMul(FMul(currentLoad, F08), FSub(Float(1), state.efficiency))
        capacityFactor   == FMax(Float(0), FSub(Float(1), FDiv(currentLoad, pathLength)))
    IN  FAdd(FAdd(baseTime, interferenceTime),
             FMul(FMul(FSub(Float(1), capacityFactor), Float(remainingAnts)), F05))

Min(a, b) == IF a < b THEN a ELSE b

\* mutant of calculateOptimalAntsForPath: the quotient is rounded down
calculateOptimalAntsForPathFloor(state, remainingAnts, targetTime) ==
    LET pathLength == Float(Len(state.path) - 1)
        maxAnts    == FTrunc(FDiv(targetTime, FMul(pathLength, state.efficiency)))
    IN  Min(maxAnts, remainingAnts)

\* calculateOptimalAntsForPath
calculateOptimalAntsForPath(state, remainingAnts, targetTime) ==
    LET pathLength == Float(Len(state.path) - 1)
        maxAnts    == FCeil(FDiv(targetTime, FMul(pathLength, state.efficiency)))
    IN  Min(maxAnts, remainingAnts)

\* mutant of calculateAntDelay: a delay that grows with the number of ants
\* ahead in the batch and is not capped by the length of the path
calculateAntDelayUncapped(state, antNumber) ==
    IF antNumber = 0 THEN 0 ELSE 2 * antNumber + Len(state.path)

\* mutant of calculateAntDelay: the delay is rounded up and capped one higher
calculateAntDelayRoundUp(state, antNumber) ==
    IF antNumber = 0 THEN 0
    ELSE LET baseDelay == FCeil(FMul(FMul(Float(antNumber),
                                          FSub(Float(1), state.efficiency)), F15))
         IN  Min(baseDelay, Len(state.path) - 1)

\* calculateAntDelay
calculateAntDelay(state, antNumber) ==
    IF antNumber = 0 THEN 0
    ELSE LET baseDelay == FTrunc(FMul(FMul(Float(antNumber),
                                           FSub(Float(1), state.efficiency)), F15))
         IN  Min(baseDelay, Len(state.path) - 2)

\* the loop of distributeAnts that picks the path with the lowest estimate;
\* bestPath is counted from 1 and is 0 where the source has -1
RECURSIVE pickBestPath(_, _, _, _, _)
pickBestPath(pathStates, remainingAnts, i, bestPath, bestTime) ==
    IF i > Len(pathStates) THEN [bestPath |-> bestPath, bestTime |-> bestTime]
    ELSE LET timeEstimate == calculateTimeEstimate(pathStates[i], remainingAnts)
         IN  IF FLess(timeEstimate, bestTime)
             THEN pickBestPath(pathStates, remainingAnts, i + 1, i, timeEstimate)
             ELSE pickBestPath(pathStates, remainingAnts, i + 1, bestPath, bestTime)

\* mutant of assignBatch: the slot of the first ant of the batch is not filled
assignBatchSkipFirst(ants, state, bestPath, antIndex, antsForPath) ==
    [k \in 1..Len(ants) |->
        IF k > antIndex + 1 /\ k <= antIndex + antsForPath
        THEN [ID        |-> k,
              Path      |-> state.path,
              PathIndex |-> bestPath,
              Position  |-> -1,
              Delay     |-> calculateAntDelay(state, k - antIndex - 1)]
        ELSE ants[k]]

\* the batch of antsForPath ants assigned to pathStates[bestPath]
assignBatch(ants, state, bestPath, antIndex, antsForPath) ==
    [k \in 1..Len(ants) |->
        IF k > antIndex /\ k <= antIndex + antsForPath
        THEN [ID        |-> k,
              Path      |-> state.path,
              PathIndex |-> bestPath,
              Position  |-> -1,
              Delay     |-> calculateAntDelay(state, k - antIndex - 1)]
        ELSE ants[k]]

\* the outer loop of distributeAnts; hang is set where the loop would repeat
\* without assigning any ant; passes lists, for every pass of the loop that
\* assigned a batch, the values its variables had when the batch was sized
RECURSIVE distributeLoop(_, _, _, _)
distributeLoop(ants, pathStates, remainingAnts, antIndex) ==
    IF remainingAnts <= 0
    THEN [ants |-> ants, pathStates |-> pathStates, hang |-> FALSE, passes |-> <<>>]
    ELSE LET best == pickBestPath(pathStates, remainingAnts, 1, 0, MaxFloat64)
         IN  IF best.bestPath = 0
             THEN [ants |-> ants, pathStates |-> pathStates, hang |-> FALSE,
                   passes |-> <<>>]
             ELSE LET state       == pathStates[best.bestPath]
                      antsForPath == calculateOptimalAntsForPath(
                                         state, remainingAnts, best.bestTime)
                      pass        == [pathStates    |-> pathStates,
                                      remainingAnts |-> remainingAnts,
                                      antIndex      |-> antIndex,
                                      bestPath      |-> best.bestPath,
                                      bestTime      |-> best.bestTime,
                                      antsForPath   |-> antsForPath]
                  IN  IF antsForPath <= 0
                      THEN [ants |-> ants, pathStates |-> pathStates, hang |-> TRUE,
                            passes |-> <<>>]
                      ELSE LET rest == distributeLoop(
                               assignBatch(ants, state, best.bestPath, antIndex, antsForPath),
                               [pathStates EXCEPT
                                   ![best.bestPath].antsCount = @ + antsForPath,
                                   ![best.bestPath].lastAntEnd =
                                       FAdd(@, FMul(Float(antsForPath), F08))],
                               remainingAnts - antsForPath,
                               antIndex + antsForPath)
                           IN  [rest EXCEPT !.passes = <<pass>> \o @]

\* distributeAnts
distributeAnts(numAnts, pathStates) ==
    distributeLoop([i \in 1..numAnts |-> NilAnt], pathStates, numAnts, 0)

(* ----------------------------- turn simulator --------------------------- *)

\* ant.Position == len(ant.Path)-1
AtEnd(ant) == ant.Position = Len(ant.Path) - 1

\* getAntPriority
getAntPriority(ant, currentTurn) ==
    IF AtEnd(ant) THEN Float(-1)
    ELSE LET progress == FDiv(Float(ant.Position + 1), Float(Len(ant.Path)))
             started  == IF ant.Position > -1 THEN FAdd(progress, F05) ELSE progress
         IN  IF ant.Position = -1 /\ ant.Delay <= currentTurn
             THEN FAdd(started, F03)
             ELSE started

\* sortAntsByPriority
sortAntsByPriority(ants, currentTurn) ==
    LET keyed  == [i \in 1..Len(ants) |->
                      [item |-> ants[i], key |-> getAntPriority(ants[i], currentTurn)]]
        sorted == SortSlice(keyed, TRUE)
    IN  [i \in 1..Len(ants) |-> sorted[i].item]

\* mutant of getNextRoom: an ant that has not departed is taken to stand on
\* the start room already
getNextRoomSkipStart(ant) ==
    IF ant.Position = -1 THEN ant.Path[2] ELSE ant.Path[ant.Position + 2]

\* getNextRoom (Position counts from 0, sequences from 1)
getNextRoom(ant) ==
    IF ant.Position = -1 THEN ant.Path[1] ELSE ant.Path[ant.Position + 2]

\* mutant of canMoveToRoom: the occupancy map is not consulted
canMoveToRoomUnchecked(room, occupancy, c) == TRUE

\* mutant of canMoveToRoom: the end room is not exempt
canMoveToRoomEndCounted(room, occupancy, c) ==
    room = c.Start \/ room \notin occupancy

\* canMoveToRoom; occupancy is the set of rooms the map holds true for
canMoveToRoom(room, occupancy, c) ==
    room = c.Start \/ room = c.End \/ room \notin occupancy

\* mutant of updateAntPosition: a departing ant is put on index 1
updateAntPositionSkip(ant) ==
    [ant EXCEPT !.Position = IF @ = -1 THEN 1 ELSE @ + 1]

\* updateAntPosition: the ant's new Position
updateAntPosition(ant) ==
    [ant EXCEPT !.Position = IF @ = -1 THEN 0 ELSE @ + 1]

\* fmt.Sprintf("L%d-%s", ant.ID, nextRoom), kept as its formatted pieces
MoveToken(id, room) == <<"L", id, "-", room>>

\* mutant of moveAnts: an ant still waits in the turn that equals its delay
RECURSIVE moveAntsLate(_, _, _, _, _)
moveAntsLate(ants, i, c, turn, t) ==
    IF i > Len(ants) THEN [t EXCEPT !.ants = ants]
    ELSE LET ant == ants[i]
         IN  IF AtEnd(ant) THEN moveAntsLate(ants, i + 1, c, turn, t)
             ELSE IF ant.Position = -1 /\ ant.Delay >= turn
                  THEN moveAntsLate(ants, i + 1, c, turn, t)
             ELSE LET nextRoom == getNextRoom(ant)
                  IN  IF ~canMoveToRoom(nextRoom, t.roomOccupancy, c)
                      THEN moveAntsLate(ants, i + 1, c, turn, t)
                      ELSE moveAntsLate(
                               [ants EXCEPT ![i] = updateAntPosition(ant)],
                               i + 1, c, turn,
                               [t EXCEPT
                                   !.turnMoves = IF nextRoom # c.Start
                                                 THEN Append(@, MoveToken(ant.ID, nextRoom))
                                                 ELSE @,
                                   !.roomOccupancy = @ \cup {nextRoom},
                                   !.moveMade = TRUE])

\* the loop over the ants of one turn of simulateAntMovements
RECURSIVE moveAnts(_, _, _, _, _)
moveAnts(ants, i, c, turn, t) ==
    IF i > Len(ants) THEN [t EXCEPT !.ants = ants]
    ELSE LET ant == ants[i]
         IN  IF AtEnd(ant) THEN moveAnts(ants, i + 1, c, turn, t)
             ELSE IF ant.Position = -1 /\ ant.Delay > turn
                  THEN moveAnts(ants, i + 1, c, turn, t)
             ELSE LET nextRoom == getNextRoom(ant)
                  IN  IF ~canMoveToRoom(nextRoom, t.roomOccupancy, c)
                      THEN moveAnts(ants, i + 1, c, turn, t)
                      ELSE moveAnts(
                               [ants EXCEPT ![i] = updateAntPosition(ant)],
                               i + 1, c, turn,
                               [t EXCEPT
                                   !.turnMoves = IF nextRoom # c.Start
                                                 THEN Append(@, MoveToken(ant.ID, nextRoom))
                                                 ELSE @,
                                   !.roomOccupancy = @ \cup {nextRoom},
                                   !.moveMade = TRUE])

\* one iteration of the loop of simulateAntMovements
simulateTurn(ants, c, turn) ==
    moveAnts(sortAntsByPriority(ants, turn), 1, c, turn,
             [ants |-> <<>>, turnMoves |-> <<>>, moveMade |-> FALSE, roomOccupancy |-> {}])

(* ------------------------------ input files ----------------------------- *)

\* the rooms of the generated colony files and their coordinates
RoomX == [S |-> 0, a |-> 1, b |-> 2, c |-> 1, E |-> 3]

RoomY == [S |-> 1, a |-> 2, b |-> 1, c |-> 0, E |-> 1]

InteriorRooms == <<"a", "b", "c">>

RoomLine(name) == <<name, " ">> \o Itoa(RoomX[name]) \o <<" ">> \o Itoa(RoomY[name])

\* the tunnels a generated file may declare, in the order it declares them
CandTunnels ==
    << <<"S", "a">>, <<"S", "b">>, <<"S", "c">>, <<"a", "b">>, <<"c", "b">>,
       <<"a", "c">>, <<"a", "E">>, <<"b", "E">>, <<"c", "E">>, <<"S", "E">> >>

TunnelLine(t) == <<t[1], "-", t[2]>>

\* the lines of the free-form files
FreeLines ==
    { StartMark, EndMark, <<"#", "x">>, <<>>,
      <<"S", " ", "0", " ", "0">>, <<"E", " ", "1", " ", "0">>,
      <<"E", " ", "1", " ", "-", "1">>, <<"L", " ", "0", " ", "0">>,
      <<"S", " ", "0">>, <<"S", " ", "x", " ", "0">>, <<"S", "-", "E">> }

GenLines ==
    {StartMark, EndMark} \cup {RoomLine(r) : r \in DOMAIN RoomX}
        \cup {TunnelLine(CandTunnels[j]) : j \in 1..Len(CandTunnels)}

\* the first lines of the files: the ant counts 1..MaxAnts and four bad ones
AntLines ==
    {Itoa(n) : n \in 1..MaxAnts} \cup {<<"0">>, <<"-", "1">>, <<"x">>, <<>>}

\* where a generated file stands after a line: ##start, the start room, some
\* of the interior rooms in order, ##end, the end room, then at most
\* MaxTunnels tunnel lines: candidate tunnels in order, the first of them
\* possibly written twice
GenDead == [k |-> "dead", i |-> 0, n |-> 0]

GenStep(st, line) ==
    IF st.k = "ants"
    THEN (IF line = StartMark THEN [k |-> "smark", i |-> 0, n |-> 0] ELSE GenDead)
    ELSE IF st.k = "smark"
    THEN (IF line = RoomLine("S") THEN [k |-> "rooms", i |-> 0, n |-> 0] ELSE GenDead)
    ELSE IF st.k = "rooms"
    THEN (IF \E j \in (st.i + 1)..Len(InteriorRooms) : line = RoomLine(InteriorRooms[j])
          THEN [k |-> "rooms",
                i |-> CHOOSE j \in (st.i + 1)..Len(InteriorRooms) :
                          line = RoomLine(InteriorRooms[j]),
                n |-> 0]
          ELSE IF line = EndMark THEN [k |-> "emark", i |-> 0, n |-> 0] ELSE GenDead)
    ELSE IF st.k = "emark"
    THEN (IF line = RoomLine("E") THEN [k |-> "tunnels", i |-> 0, n |-> 0] ELSE GenDead)
    ELSE IF st.k = "tunnels"
    THEN (IF st.n < MaxTunnels
             /\ \E j \in (st.i + 1)..Len(CandTunnels) : line = TunnelLine(CandTunnels[j])
          THEN [k |-> "tunnels",
                i |-> CHOOSE j \in (st.i + 1)..Len(CandTunnels) :
                          line = TunnelLine(CandTunnels[j]),
                n |-> st.n + 1]
          ELSE IF st.n = 1 /\ st.n < MaxTunnels /\ line = TunnelLine(CandTunnels[st.i])
          THEN [k |-> "tunnels", i |-> st.i, n |-> 2]
          ELSE GenDead)
    ELSE GenDead

RECURSIVE GenStage(_)
GenStage(lines) ==
    IF lines = <<>> THEN [k |-> "ants", i |-> 0, n |-> 0]
    ELSE GenStep(GenStage(SubSeq(lines, 1, Len(lines) - 1)), lines[Len(lines)])

\* whether the file being read may continue with this line: the lines read so
\* far (c.Input) and the line are the beginning of a generated file whose
\* tunnels join declared rooms, or of a free-form file
Offered(c, line) ==
    \/ /\ GenStep(GenStage(Tail(c.Input)), line).k # "dead"
       /\ \A j \in 1..Len(CandTunnels) :
              line = TunnelLine(CandTunnels[j]) =>
                  HasRoom(c, CandTunnels[j][1]) /\ HasRoom(c, CandTunnels[j][2])
    \/ /\ c.Input[1] = <<"1">>
       /\ Len(c.Input) - 1 < MaxFreeLines
       /\ line \in FreeLines

(* ------------------------------- the run -------------------------------- *)

VARIABLES
    pc,              \* where the run stands
    c,               \* the colony ParseInput builds
    expectingStart,  \* the flags of parseRoomsAndTunnels
    expectingEnd,
    allPaths,        \* the paths dfs recorded
    paths,           \* what FindPaths returned
    pathStates,      \* the PathState slice of SimulateMovement
    ants,            \* the ants slice, in the order the last sort left it
    turn,            \* the turn counter of simulateAntMovements
    moves,           \* the move lines collected so far
    out              \* the lines written to standard output

vars == <<pc, c, expectingStart, expectingEnd, allPaths, paths, pathStates, ants,
          turn, moves, out>>

parseVars == <<c, expectingStart, expectingEnd>>

simVars == <<allPaths, paths, pathStates, ants, turn, moves>>

ErrorLine(msg) == [kind |-> "error", text |-> <<msg>>]

ErrLine == ErrorLine(ErrMsg)

EchoLines(c0) ==
    [i \in 1..Len(c0.Input) |-> [kind |-> "echo", text |-> c0.Input[i]]]
        \o <<[kind |-> "blank", text |-> <<>>]>>

MoveLines(ms) == [i \in 1..Len(ms) |-> [kind |-> "move", text |-> ms[i]]]

Init ==
    /\ pc = "main"
    /\ c = NewColony
    /\ expectingStart = FALSE
    /\ expectingEnd = FALSE
    /\ allPaths = <<>>
    /\ paths = <<>>
    /\ pathStates = <<>>
    /\ ants = <<>>
    /\ turn = 0
    /\ moves = <<>>
    /\ out = <<>>

\* main prints the error ParseInput returned, the usage error or the error
\* line SimulateMovement returned, and returns
Fail(msg) ==
    /\ pc' = "done"
    /\ out' = Append(out, ErrorLine(msg))

\* main: len(os.Args) != 2
BadArgs ==
    /\ pc = "main"
    /\ Fail(ErrMsg)
    /\ UNCHANGED <<parseVars, simVars>>

\* ParseInput: os.Open fails
OpenFails ==
    /\ pc = "main"
    /\ Fail(ErrMsg)
    /\ UNCHANGED <<parseVars, simVars>>

\* ParseInput: the file opens
Open ==
    /\ pc = "main"
    /\ pc' = "parseAnts"
    /\ UNCHANGED <<parseVars, simVars, out>>

\* parseAnts on an empty file
NoAntLine ==
    /\ pc = "parseAnts"
    /\ Fail(ErrMsg)
    /\ UNCHANGED <<parseVars, simVars>>

\* parseAnts on the first line of the file
ParseAnts ==
    /\ pc = "parseAnts"
    /\ \E line \in AntLines :
          LET r == parseAnts(line, c)
          IN  IF r.err # NoError
              THEN Fail(r.err) /\ UNCHANGED parseVars
              ELSE /\ c' = r.c
                   /\ pc' = "parseRooms"
                   /\ UNCHANGED <<expectingStart, expectingEnd, out>>
    /\ UNCHANGED simVars

\* one iteration of the loop of parseRoomsAndTunnels
ParseLine ==
    /\ pc = "parseRooms"
    /\ \E line \in FreeLines \cup GenLines :
          /\ Offered(c, line)
          /\ LET r == parseLine(line, c, expectingStart, expectingEnd)
             IN  /\ c' = r.c
                 /\ expectingStart' = r.es
                 /\ expectingEnd' = r.ee
                 /\ IF r.err # NoError THEN Fail(r.err) ELSE UNCHANGED <<pc, out>>
    /\ UNCHANGED simVars

\* the end of the file: the loop ends and ParseInput checks Start and End
ParseEOF ==
    /\ pc = "parseRooms"
    /\ IF MissingStartOrEnd(c)
       THEN Fail(ErrMsg)
       ELSE pc' = "findPaths" /\ UNCHANGED out
    /\ UNCHANGED <<parseVars, simVars>>

\* FindPaths: the depth-first enumeration
Enumerate ==
    /\ pc = "findPaths"
    /\ allPaths' = enumeratePaths(c)
    /\ pc' = "optimize"
    /\ UNCHANGED <<parseVars, paths, pathStates, ants, turn, moves, out>>

\* mutant of Optimize: SimulateMovement does not check for an empty path list
OptimizeUnchecked ==
    /\ pc = "optimize"
    /\ paths' = optimizePaths(allPaths, c)
    /\ out' = out \o EchoLines(c)
    /\ pc' = "distribute"
    /\ UNCHANGED <<parseVars, allPaths, pathStates, ants, turn, moves>>

\* FindPaths returns optimizePaths(paths, c); SimulateMovement returns the
\* error line when it is empty, and else echoes the input
Optimize ==
    /\ pc = "optimize"
    /\ paths' = optimizePaths(allPaths, c)
    /\ IF Len(paths') = 0
       THEN Fail(ErrMsg)
       ELSE /\ out' = out \o EchoLines(c)
            /\ pc' = "distribute"
    /\ UNCHANGED <<parseVars, allPaths, pathStates, ants, turn, moves>>

\* initializePathStates and distributeAnts
Distribute ==
    /\ pc = "distribute"
    /\ LET d == distributeAnts(c.NumAnts, initializePathStates(paths, c))
       IN  /\ ants' = d.ants
           /\ pathStates' = d.pathStates
           /\ pc' = IF d.hang THEN "hang" ELSE "simulate"
    /\ UNCHANGED <<parseVars, allPaths, paths, turn, moves, out>>

\* the slice in the opposite order
Reverse(s) == [i \in 1..Len(s) |-> s[Len(s) + 1 - i]]

\* mutant of Turn: the sort leaves ants of equal priority in either order
TurnTieOrderFree ==
    /\ pc = "simulate"
    /\ IF \E i \in 1..Len(ants) : ants[i] = NilAnt
       THEN /\ pc' = "panic"
            /\ UNCHANGED <<ants, turn, moves, out>>
       ELSE \E before \in {ants, Reverse(ants)} :
            LET t == simulateTurn(before, c, turn)
            IN  /\ ants' = t.ants
                /\ IF ~t.moveMade
                   THEN /\ pc' = "done"
                        /\ out' = out \o MoveLines(moves)
                        /\ UNCHANGED <<turn, moves>>
                   ELSE /\ moves' = IF Len(t.turnMoves) > 0
                                    THEN Append(moves, t.turnMoves)
                                    ELSE moves
                        /\ turn' = turn + 1
                        /\ UNCHANGED <<pc, out>>
    /\ UNCHANGED <<parseVars, allPaths, paths, pathStates>>

\* one turn of simulateAntMovements; a nil ant is dereferenced by the sort or
\* by the loop and the run panics; after the turn without a move main prints
\* the move lines
Turn ==
    /\ pc = "simulate"
    /\ IF \E i \in 1..Len(ants) : ants[i] = NilAnt
       THEN /\ pc' = "panic"
            /\ UNCHANGED <<ants, turn, moves, out>>
       ELSE LET t == simulateTurn(ants, c, turn)
            IN  /\ ants' = t.ants
                /\ IF ~t.moveMade
                   THEN /\ pc' = "done"
                        /\ out' = out \o MoveLines(moves)
                        /\ UNCHANGED <<turn, moves>>
                   ELSE /\ moves' = IF Len(t.turnMoves) > 0
                                    THEN Append(moves, t.turnMoves)
                                    ELSE moves
                        /\ turn' = turn + 1
                        /\ UNCHANGED <<pc, out>>
    /\ UNCHANGED <<parseVars, allPaths, paths, pathStates>>

Next ==
    \/ BadArgs
    \/ OpenFails
    \/ Open
    \/ NoAntLine
    \/ ParseAnts
    \/ ParseLine
    \/ ParseEOF
    \/ Enumerate
    \/ Optimize
    \/ Distribute
    \/ Turn

Spec == Init /\ [][Next]_vars

\* what a step of Turn does to pc and turn: the loop of simulateAntMovements
\* either counts one turn more or is left
TurnStep ==
    /\ pc = "simulate"
    /\ \/ pc' = "simulate" /\ turn' = turn + 1
       \/ pc' \in {"done", "panic"} /\ turn' = turn

\* the loop runs in one thread that nothing suspends: while the run stands in
\* the loop, a turn is taken
FairSpec == Spec /\ WF_<<pc, turn>>(TurnStep)

(* ------------------------ the run as a function ------------------------- *)

\* the loop of parseRoomsAndTunnels over the lines of a file, from line i on
RECURSIVE parseRoomsAndTunnels(_, _, _, _, _)
parseRoomsAndTunnels(lines, i, c0, es, ee) ==
    IF i > Len(lines) THEN [err |-> NoError, c |-> c0]
    ELSE LET r == parseLine(lines[i], c0, es, ee)
         IN  IF r.err # NoError THEN [err |-> r.err, c |-> r.c]
             ELSE parseRoomsAndTunnels(lines, i + 1, r.c, r.es, r.ee)

\* ParseInput on a file that opens and holds these lines
ParseInput(lines) ==
    IF lines = <<>> THEN [err |-> ErrMsg, c |-> NewColony]
    ELSE LET a == parseAnts(lines[1], NewColony)
         IN  IF a.err # NoError THEN a
             ELSE LET r == parseRoomsAndTunnels(lines, 2, a.c, FALSE, FALSE)
                  IN  IF r.err # NoError THEN r
                      ELSE IF MissingStartOrEnd(r.c) THEN [err |-> ErrMsg, c |-> r.c]
                      ELSE r

\* the loop of simulateAntMovements, run to its end
RECURSIVE simulateAntMovements(_, _, _, _)
simulateAntMovements(as, c0, n, ms) ==
    IF \E i \in 1..Len(as) : as[i] = NilAnt THEN [panic |-> TRUE, moves |-> ms]
    ELSE LET t == simulateTurn(as, c0, n)
         IN  IF ~t.moveMade THEN [panic |-> FALSE, moves |-> ms]
             ELSE simulateAntMovements(t.ants, c0, n + 1,
                      IF Len(t.turnMoves) > 0 THEN Append(ms, t.turnMoves) ELSE ms)

\* SimulateMovement and the loop of main that prints what it returns
SimulateMovement(c0) ==
    LET ps == optimizePaths(enumeratePaths(c0), c0)
    IN  IF Len(ps) = 0 THEN [panic |-> FALSE, out |-> <<ErrLine>>]
        ELSE LET d == distributeAnts(c0.NumAnts, initializePathStates(ps, c0))
                 s == simulateAntMovements(d.ants, c0, 0, <<>>)
             IN  [panic |-> s.panic,
                  out |-> EchoLines(c0) \o (IF s.panic THEN <<>> ELSE MoveLines(s.moves))]

\* main on a file that opens and holds these lines: what it writes, and
\* whether it ends in a panic
main(lines) ==
    LET p == ParseInput(lines)
    IN  IF p.err # NoError THEN [panic |-> FALSE, out |-> <<ErrorLine(p.err)>>]
        ELSE SimulateMovement(p.c)

(* ------------------------------- claims --------------------------------- *)

ParseStages == {"main", "parseAnts", "parseRooms"}

\* the rooms other than the start room and the end room
InteriorOf(c0) == DOMAIN c0.Rooms \ {c0.Start, c0.End}

\* the room an ant stands on, once it has departed
RoomOf(ant) == ant.Path[ant.Position + 1]

\* the ants (by position in the slice) standing on room r
AntsOn(r) ==
    {i \in 1..Len(ants) : ants[i] # NilAnt /\ ants[i].Position >= 0 /\ RoomOf(ants[i]) = r}

\* the ant with identity id in a slice of ants
AntWithID(s, id) == s[CHOOSE i \in 1..Len(s) : s[i].ID = id]

\* the simulation ran to the turn without a move and main printed the moves
Finished == pc = "done" /\ Len(paths) > 0

\* C1: at the end of every turn at most one ant stands on any room other
\* than the start room and the end room
C1_SingleOccupancy ==
    pc \in {"simulate", "done"} =>
        \A r \in InteriorOf(c) : Cardinality(AntsOn(r)) <= 1

\* C2: in every turn an ant's Position stays or advances by exactly one (from
\* -1 to 0, or from i to i+1), and an ant at the last index of its path is
\* not moved again
C2_CursorStep ==
    [][pc = "simulate" =>
          /\ Len(ants') = Len(ants)
          /\ \A i \in 1..Len(ants) :
                ants[i] # NilAnt =>
                    LET before == ants[i]
                        after  == AntWithID(ants', before.ID)
                    IN  /\ after.Path = before.Path
                        /\ after.Position \in {before.Position, before.Position + 1}
                        /\ AtEnd(before) => after.Position = before.Position]_vars

\* C2 witness: in the middle of a simulation one ant stands on the last room
\* of its path, where the later turns must leave it, and another has left the
\* start room and is on its way
C2_Witness ==
    /\ pc = "simulate"
    /\ turn >= 2
    /\ \E i, j \in 1..Len(ants) :
          /\ AtEnd(ants[i])
          /\ ants[j].Position >= 1 /\ ~AtEnd(ants[j])

\* the number of move tokens of the log that report ant id entering room r
Entries(id, r) ==
    Cardinality({tk \in {<<t, k>> : t \in 1..Len(moves), k \in 1..MaxAnts + 1} :
                    tk[2] <= Len(moves[tk[1]]) /\ moves[tk[1]][tk[2]] = MoveToken(id, r)})

\* C3: when the simulation of a colony with a path stops, every one of the
\* NumAnts ants is on the last index of its path and the log reports each
\* entering the end room exactly once
C3_AllArrive ==
    (pc \in {"done", "panic", "hang"} /\ Len(paths) > 0) =>
        /\ pc = "done"
        /\ Len(ants) = c.NumAnts
        /\ \A i \in 1..Len(ants) : ants[i] # NilAnt /\ AtEnd(ants[i])
        /\ \A id \in 1..c.NumAnts : Entries(id, c.End) = 1

\* C4: the simulation loop stops, every turn but the last moves an ant, and
\* the turn without a move comes only once every ant is on the last index of
\* its path
C4_Terminates ==
    /\ [](pc = "simulate" => <>(pc \in {"done", "panic"}))
    /\ [][pc = "simulate" /\ pc' = "simulate" =>
             \E i \in 1..Len(ants) :
                 AntWithID(ants', ants[i].ID).Position = ants[i].Position + 1]_vars
    /\ [][pc = "simulate" /\ pc' = "done" =>
             \A i \in 1..Len(ants) : AtEnd(ants[i])]_vars

\* C4 witness: the loop has stopped and an ant that had to wait out a startup
\* delay is on the last index of its path
C4_Witness ==
    /\ Finished
    /\ \E i \in 1..Len(ants) : ants[i].Delay >= 1 /\ AtEnd(ants[i])

Joined(c0, x, y) ==
    \E i \in 1..Len(c0.Tunnels) :
        \/ c0.Tunnels[i].From = x /\ c0.Tunnels[i].To = y
        \/ c0.Tunnels[i].From = y /\ c0.Tunnels[i].To = x

SimplePath(c0, p) ==
    /\ Len(p) >= 1
    /\ p[1] = c0.Start
    /\ p[Len(p)] = c0.End
    /\ \A i, j \in 1..Len(p) : i # j => p[i] # p[j]
    /\ \A i \in 1..(Len(p) - 1) : Joined(c0, p[i], p[i + 1])

\* C5: every path dfs records starts at the start room, ends at the end room,
\* holds no room twice and steps along tunnels only (for the dfs FindPaths
\* calls and for the dfs of pathfinder.go)
C5_PathsWellFormed ==
    /\ \A i \in 1..Len(allPaths) : SimplePath(c, allPaths[i])
    /\ pc = "optimize" =>
          LET byTunnel == enumeratePathsByTunnel(c)
          IN  \A i \in 1..Len(byTunnel) : SimplePath(c, byTunnel[i])

\* C5 witness: dfs recorded several paths, one of them of four rooms or more
C5_Witness ==
    /\ pc = "optimize"
    /\ Len(allPaths) >= 3
    /\ \E i \in 1..Len(allPaths) : Len(allPaths[i]) >= 4

\* C6: no line of the move log reports two ants entering the same room,
\* unless the room is the start room or the end room
C6_NoSharedEntry ==
    \A t \in 1..Len(moves) :
        \A j, k \in 1..Len(moves[t]) :
            (j # k /\ moves[t][j][4] = moves[t][k][4]) =>
                moves[t][j][4] \in {c.Start, c.End}

\* C6 witness: an ant with no startup delay is still on the start room after
\* the turn in which it tried to leave it, and the room it was refused was
\* entered by another ant in the last line of the log
C6_Witness ==
    /\ pc = "simulate"
    /\ turn >= 2
    /\ Len(moves) >= 1
    /\ \E i \in 1..Len(ants) :
          /\ ants[i].Delay = 0
          /\ ants[i].Position = 0
          /\ getNextRoom(ants[i]) \in InteriorOf(c)
          /\ \E k \in 1..Len(moves[Len(moves)]) :
                /\ moves[Len(moves)][k][4] = getNextRoom(ants[i])
                /\ moves[Len(moves)][k][2] # ants[i].ID

\* the colony holds the start room, the end room and one tunnel joining them
DirectColony(c0) ==
    /\ c0.Start # c0.End
    /\ DOMAIN c0.Rooms = {c0.Start, c0.End}
    /\ Len(c0.Tunnels) = 1
    /\ Joined(c0, c0.Start, c0.End)

\* C7: on a colony of a start room and an end room joined by one tunnel dfs
\* records the one path, the log is one line, L1-end ... LN-end in the order
\* of the identities, and the run stops after that turn: main prints the line
\* after the echo
C7_DirectEdge ==
    /\ (pc = "optimize" /\ DirectColony(c)) => allPaths = << <<c.Start, c.End>> >>
    /\ (pc = "simulate" /\ DirectColony(c) /\ Len(moves) >= 1) =>
          \A i \in 1..Len(ants) : AtEnd(ants[i])
    /\ (pc \in {"done", "panic", "hang"} /\ Len(allPaths) > 0 /\ DirectColony(c)) =>
          /\ pc = "done"
          /\ moves = <<[i \in 1..c.NumAnts |-> MoveToken(i, c.End)]>>
          /\ out = EchoLines(c) \o MoveLines(moves)

\* C7 witness: the run on a direct colony with three ants or more is over
C7_Witness == Finished /\ DirectColony(c) /\ c.NumAnts >= 3

\* C8: one ant on a colony whose only path has k edges: the log has k lines
\* of one token each, the i-th naming the i-th room after the start room
C8_SingleAnt ==
    (pc \in {"done", "panic", "hang"} /\ c.NumAnts = 1 /\ Len(allPaths) >= 1
        /\ (\A i \in 1..Len(allPaths) : allPaths[i] = allPaths[1])
        /\ Len(allPaths[1]) >= 2) =>
        /\ pc = "done"
        /\ moves = [i \in 1..(Len(allPaths[1]) - 1) |->
                        <<MoveToken(1, allPaths[1][i + 1])>>]

\* C8 witness: the run of one ant over an only path of three edges is over
C8_Witness ==
    /\ Finished
    /\ c.NumAnts = 1
    /\ Len(allPaths) = 1
    /\ Len(allPaths[1]) = 4

\* the lines read so far designate no start room or no end room: no room
\* line follows a ##start line, or none follows a ##end line
RoomLineAt(lines, i) ==
    /\ lines[i] # <<>>
    /\ ~HasPrefix(lines[i], <<"#">>)
    /\ ~Contains(lines[i], "-")

NotDesignated(lines, mark) ==
    ~\E i, j \in 1..Len(lines) : i < j /\ lines[i] = mark /\ RoomLineAt(lines, j)

\* C9: while the input is parsed nothing is written; a parse that fails writes
\* the one error line, the same for every failure, and ends the run; and the
\* parse fails at the end of a file that designated no start or no end room
C9_ParseFailure ==
    [][/\ pc \in ParseStages =>
            /\ out = <<>>
            /\ pc' \in ParseStages \cup {"done", "findPaths"}
            /\ pc' \in ParseStages \cup {"findPaths"} => out' = <<>>
            /\ pc' = "done" => out' = <<ErrLine>>
            /\ (pc' = "findPaths" =>
                    /\ ~NotDesignated(c.Input, StartMark)
                    /\ ~NotDesignated(c.Input, EndMark))
       /\ pc # "done"]_vars

\* C9 witness: the file ended after ##start and the start room, with no ##end,
\* and the run is over with the error line
C9_Witness ==
    /\ pc = "done"
    /\ c.Input = << <<"1">>, StartMark, <<"S", " ", "0", " ", "0">> >>
    /\ out = <<ErrLine>>

\* the rooms joined to a room of the set by a tunnel, and the set itself
Neighbours(c0, rs) ==
    rs \cup {r \in DOMAIN c0.Rooms : \E x \in rs : Joined(c0, x, r)}

RECURSIVE ReachableFrom(_, _)
ReachableFrom(c0, rs) ==
    IF Neighbours(c0, rs) = rs THEN rs ELSE ReachableFrom(c0, Neighbours(c0, rs))

\* the colony is parsed and no sequence of tunnels joins start to end
NoRoute(c0) ==
    /\ ~MissingStartOrEnd(c0)
    /\ c0.End \notin ReachableFrom(c0, {c0.Start})

\* C10: on a parsed colony with no route from start to end FindPaths returns
\* no path and the run ends with the error line alone: nothing is echoed, no
\* ant is distributed and no turn is simulated
C10_NoRoute ==
    (pc \notin ParseStages /\ NoRoute(c)) =>
        /\ pc \in {"findPaths", "optimize", "done"}
        /\ allPaths = <<>>
        /\ paths = <<>>
        /\ pathStates = <<>> /\ ants = <<>> /\ turn = 0 /\ moves = <<>>
        /\ pc = "done" => out = <<ErrLine>>
        /\ pc # "done" => out = <<>>

\* C10 witness: the run on a colony of four rooms or more with tunnels, none
\* of them leading to the end room, is over
C10_Witness ==
    /\ pc = "done"
    /\ NoRoute(c)
    /\ Cardinality(DOMAIN c.Rooms) >= 4
    /\ Len(c.Tunnels) >= 2
    /\ allPaths = <<>>

\* the rooms of the colony whose IsStart flag, or IsEnd flag, is set
StartRooms(c0) == {r \in DOMAIN c0.Rooms : c0.Rooms[r].IsStart}

EndRooms(c0) == {r \in DOMAIN c0.Rooms : c0.Rooms[r].IsEnd}

\* C11: the colony ParseInput returns has exactly one room with IsStart, exactly
\* one with IsEnd, Start and End name these two rooms, and Start is not End
C11_OneStartOneEnd ==
    pc = "findPaths" =>
        /\ StartRooms(c) = {c.Start}
        /\ EndRooms(c) = {c.End}
        /\ c.Start # c.End

\* the number of lines of the input that are the marker
Marks(lines, mark) == Cardinality({i \in 1..Len(lines) : lines[i] = mark})

\* C12: ParseInput returns no colony for an input that holds the ##start marker
\* or the ##end marker more than once
C12_DuplicateMarkerRejected ==
    pc = "findPaths" =>
        /\ Marks(c.Input, StartMark) <= 1
        /\ Marks(c.Input, EndMark) <= 1

\* a line of three fields: a name that starts with neither L nor #, and two
\* integers
NodeLine(line) ==
    LET parts == Fields(line)
    IN  /\ Len(parts) = 3
        /\ ~HasPrefix(parts[1], <<"L">>)
        /\ ~HasPrefix(parts[1], <<"#">>)
        /\ Atoi(parts[2]).ok
        /\ Atoi(parts[3]).ok

\* C13: every such line read so far was taken as a room definition: the colony
\* holds a room of that name, with the coordinates of the last such line that
\* names it
C13_NodeLineAccepted ==
    \A i \in 2..Len(c.Input) :
        (/\ NodeLine(c.Input[i])
         /\ \A j \in (i + 1)..Len(c.Input) :
                NodeLine(c.Input[j]) => Fields(c.Input[j])[1] # Fields(c.Input[i])[1]) =>
            LET parts == Fields(c.Input[i])
                name  == Str(parts[1])
            IN  /\ name \in DOMAIN c.Rooms
                /\ c.Rooms[name].Name = name
                /\ c.Rooms[name].X = Atoi(parts[2]).val
                /\ c.Rooms[name].Y = Atoi(parts[3]).val

Occurrences(list, p) == Cardinality({i \in 1..Len(list) : list[i] = p})

\* the paths of the scored candidates, in the order the scoring loop of
\* optimizePaths made them
Candidates(c0, found) ==
    LET pathScores == scoredPaths(found, c0)
    IN  [i \in 1..Len(pathScores) |-> pathScores[i].path]

\* C15: the candidates optimizePaths sorts and selects from are the paths dfs
\* recorded, each as often as dfs recorded it: none dropped, none twice
C15_CandidatesArePermutation ==
    pc = "optimize" =>
        LET cands == Candidates(c, allPaths)
        IN  /\ Len(cands) = Len(allPaths)
            /\ \A i \in 1..Len(allPaths) :
                   Occurrences(cands, allPaths[i]) = Occurrences(allPaths, allPaths[i])

\* the list without its i-th entry
Others(list, i) == SubSeq(list, 1, i - 1) \o SubSeq(list, i + 1, Len(list))

\* the rooms of a path other than its first and its last
InteriorSet(p) == {p[k] : k \in 2..(Len(p) - 1)}

\* the sum, over the paths of the list, of the number of interior rooms the
\* path shares with p
RECURSIVE SharedWithAll(_, _)
SharedWithAll(p, list) ==
    IF list = <<>> THEN 0
    ELSE Cardinality(InteriorSet(p) \cap InteriorSet(Head(list)))
             + SharedWithAll(p, Tail(list))

\* C16: the independence score of a discovered path against the other
\* discovered paths is 100 / (1 + S), S the number of interior rooms shared
\* with them, summed over them; it is below 100 when S is 1 or more
C16_IndependenceScore ==
    pc = "optimize" =>
        \A i \in 1..Len(allPaths) :
            LET S     == SharedWithAll(allPaths[i], Others(allPaths, i))
                score == calculateIndependenceScore(allPaths[i], Others(allPaths, i))
            IN  /\ score = Frac(100, 1 + S)
                /\ S >= 1 => FLess(score, Float(100))

\* the colony holds two tunnels between the same two rooms
ParallelTunnels(c0) ==
    \E i, j \in 1..Len(c0.Tunnels) :
        /\ i # j
        /\ {c0.Tunnels[i].From, c0.Tunnels[i].To} = {c0.Tunnels[j].From, c0.Tunnels[j].To}

\* C17: no sequence of rooms is recorded twice by dfs, also when the colony
\* holds several tunnels between the same two rooms
C17_EachPathOnce ==
    ParallelTunnels(c) =>
        \A i, j \in 1..Len(allPaths) : i # j => allPaths[i] # allPaths[j]

\* the simple paths of the colony graph that begin with the sequence p and
\* end at the end room, as a set
RECURSIVE SimplePathsFrom(_, _)
SimplePathsFrom(c0, p) ==
    IF p[Len(p)] = c0.End THEN {p}
    ELSE UNION {SimplePathsFrom(c0, Append(p, r)) :
                   r \in {x \in DOMAIN c0.Rooms :
                             /\ Joined(c0, p[Len(p)], x)
                             /\ \A k \in 1..Len(p) : p[k] # x}}

\* C18: the paths dfs recorded are, as a set, all the simple paths from the
\* start room to the end room of the colony graph
C18_AllSimplePaths ==
    pc = "optimize" =>
        {allPaths[i] : i \in 1..Len(allPaths)} = SimplePathsFrom(c, <<c.Start>>)

\* C18 witness: dfs recorded four paths or more, and, led by the ranking of
\* the neighbours, not in the order in which the tunnels are declared
C18_Witness ==
    /\ pc = "optimize"
    /\ Cardinality(SimplePathsFrom(c, <<c.Start>>)) >= 4
    /\ allPaths # enumeratePathsByTunnel(c)

\* the ant is tried in the turn: it is not on the last room of its path and
\* is not waiting out its delay
Movable(ant, currentTurn) ==
    /\ ~AtEnd(ant)
    /\ ~(ant.Position = -1 /\ ant.Delay > currentTurn)

\* ant a is to be processed before ant b in the turn: higher priority first,
\* and the lower identity first among equal priorities
Precedes(a, b, currentTurn) ==
    \/ FLess(getAntPriority(b, currentTurn), getAntPriority(a, currentTurn))
    \/ /\ getAntPriority(a, currentTurn) = getAntPriority(b, currentTurn)
       /\ a.ID < b.ID

\* C19: in every turn the ants that can move are processed by descending
\* priority, by ascending identity among equal priorities, and the tokens of
\* the turn's line are written in that order, whatever order the slice was in
C19_PriorityThenIdentity ==
    [][(pc = "simulate" /\ \A i \in 1..Len(ants) : ants[i] # NilAnt) =>
          /\ \A x, y \in 1..Len(ants') :
                LET a == AntWithID(ants, ants'[x].ID)
                    b == AntWithID(ants, ants'[y].ID)
                IN  (x < y /\ Movable(a, turn) /\ Movable(b, turn)) =>
                        Precedes(a, b, turn)
          /\ Len(moves') > Len(moves) =>
                LET line == moves'[Len(moves')]
                IN  \A j, k \in 1..Len(line) :
                        j < k => Precedes(AntWithID(ants, line[j][2]),
                                          AntWithID(ants, line[k][2]), turn)]_vars

\* the number of interior rooms two paths share
SharedInterior(p, q) == Cardinality(InteriorSet(p) \cap InteriorSet(q))

\* the overlap optimizePaths allows between two paths
AllowedOverlap(p, q) == (Len(p) + Len(q)) \div 8

\* C20: any two entries of the list optimizePaths returned share at most
\* (length + length) / 8 interior rooms, lengths in rooms, so none when the
\* lengths sum to less than 8
C20_OverlapBound ==
    \A i, j \in 1..Len(paths) :
        i # j =>
            /\ SharedInterior(paths[i], paths[j]) <= AllowedOverlap(paths[i], paths[j])
            /\ Len(paths[i]) + Len(paths[j]) < 8 => SharedInterior(paths[i], paths[j]) = 0

\* C20 witness: optimizePaths returned two paths that share an interior room,
\* and left out a discovered path that shares more with a returned one than
\* is allowed
C20_Witness ==
    /\ pc = "distribute"
    /\ \E i, j \in 1..Len(paths) :
          i # j /\ SharedInterior(paths[i], paths[j]) >= 1
    /\ \E k \in 1..Len(allPaths) :
          /\ \A i \in 1..Len(paths) : paths[i] # allPaths[k]
          /\ \E i \in 1..Len(paths) :
                SharedInterior(allPaths[k], paths[i]) > AllowedOverlap(allPaths[k], paths[i])

\* the target count of optimizePaths: the integer part of the square root of
\* the number of ants, plus one
TargetCount(c0) == ISqrt(c0.NumAnts) + 1

\* whether the candidate has the highest score of the scored candidates
HighestScoring(p, pathScores) ==
    \E k \in 1..Len(pathScores) :
        /\ pathScores[k].path = p
        /\ \A j \in 1..Len(pathScores) : ~FLess(pathScores[k].key, pathScores[j].key)

Distributed == pc = "simulate" /\ turn = 0

\* every path of the list has at least two rooms
TwoRoomPaths(list) == \A i \in 1..Len(list) : Len(list[i]) >= 2

\* C22: for a list of accepted paths of two rooms or more each, distributeAnts
\* returns (its loop does not repeat forever) a slice of NumAnts ants, the
\* k-th with ID k, each on one accepted path and not departed, no slot nil
C22_AllAssigned ==
    TwoRoomPaths(paths) =>
        /\ pc # "hang"
        /\ Distributed =>
              /\ Len(ants) = c.NumAnts
              /\ \A k \in 1..Len(ants) :
                    /\ ants[k] # NilAnt
                    /\ ants[k].ID = k
                    /\ ants[k].PathIndex \in 1..Len(paths)
                    /\ ants[k].Path = paths[ants[k].PathIndex]
                    /\ ants[k].Position = -1

\* C22 witness: distributeAnts assigned three ants or more in more than one
\* batch, to two different paths
C22_Witness ==
    /\ Distributed
    /\ TwoRoomPaths(paths)
    /\ Len(ants) >= 3
    /\ \E i, j \in 1..Len(ants) : ants[i].PathIndex # ants[j].PathIndex
    /\ \E i \in 1..Len(pathStates) : pathStates[i].antsCount >= 2

\* the passes of the loop of distributeAnts that led to the ants of the state
Passes == distributeAnts(c.NumAnts, initializePathStates(paths, c)).passes

\* the number of tunnels a path runs through
EdgeCount(p) == Len(p) - 1

\* estimated time / (path edge count * efficiency) for the path a pass chose
BatchQuotient(pass) ==
    LET state == pass.pathStates[pass.bestPath]
    IN  FDiv(calculateTimeEstimate(state, pass.remainingAnts),
             FMul(Float(EdgeCount(state.path)), state.efficiency))

\* the path a pass chose has the lowest estimated completion time, and the
\* ants of the batch are on it
LowestEstimate(pass) ==
    /\ \A i \in 1..Len(pass.pathStates) :
          ~FLess(calculateTimeEstimate(pass.pathStates[i], pass.remainingAnts),
                 calculateTimeEstimate(pass.pathStates[pass.bestPath], pass.remainingAnts))
    /\ \A k \in (pass.antIndex + 1)..(pass.antIndex + pass.antsForPath) :
          k <= Len(ants) /\ ants[k].PathIndex = pass.bestPath

\* C23 as stated: every batch has floor(estimated time / (edge count *
\* efficiency)) ants, capped at the number of ants still unassigned, and goes
\* to the path of the lowest estimated time
C23_BatchFloor ==
    Distributed =>
        LET passes == Passes
        IN  \A n \in 1..Len(passes) :
                /\ LowestEstimate(passes[n])
                /\ passes[n].antsForPath =
                       Min(FTrunc(BatchQuotient(passes[n])), passes[n].remainingAnts)

\* C23 amended: every batch has ceil(estimated time / (edge count *
\* efficiency)) ants, capped at the number of ants still unassigned, and goes
\* to the path of the lowest estimated time
C23_BatchCeil ==
    Distributed =>
        LET passes == Passes
        IN  \A n \in 1..Len(passes) :
                /\ LowestEstimate(passes[n])
                /\ passes[n].antsForPath =
                       Min(FCeil(BatchQuotient(passes[n])), passes[n].remainingAnts)

\* C23 witness: a batch whose quotient is not a whole number and is below the
\* number of ants still unassigned, and a later batch cut to the ants left
C23_Witness ==
    /\ Distributed
    /\ LET passes == Passes
       IN  /\ \E n \in 1..Len(passes) :
                 /\ FTrunc(BatchQuotient(passes[n])) # FCeil(BatchQuotient(passes[n]))
                 /\ FCeil(BatchQuotient(passes[n])) < passes[n].remainingAnts
           /\ \E n \in 1..Len(passes) :
                 FCeil(BatchQuotient(passes[n])) > passes[n].remainingAnts

\* C24: every ant's delay is between 0 and the edge count of its path minus
\* one; the first ant of every batch has delay 0, so every path that received
\* ants has an ant of delay 0; every ant on a path of two rooms has delay 0
C24_DelayRange ==
    Distributed =>
        /\ \A k \in 1..Len(ants) :
              ants[k] # NilAnt =>
                  /\ 0 <= ants[k].Delay
                  /\ ants[k].Delay <= EdgeCount(ants[k].Path) - 1
                  /\ Len(ants[k].Path) = 2 => ants[k].Delay = 0
        /\ LET passes == Passes
           IN  \A n \in 1..Len(passes) :
                   /\ passes[n].antIndex + 1 <= Len(ants)
                   /\ ants[passes[n].antIndex + 1].PathIndex = passes[n].bestPath
                   /\ ants[passes[n].antIndex + 1].Delay = 0
        /\ \A i \in 1..Len(pathStates) :
              pathStates[i].antsCount > 0 =>
                  \E k \in 1..Len(ants) :
                      ants[k].PathIndex = i /\ ants[k].Delay = 0

\* C24 witness: ants were assigned in two batches or more, and an ant waits
\* as long as the bound allows on a path of three rooms or more
C24_Witness ==
    /\ Distributed
    /\ Len(Passes) >= 2
    /\ \E k \in 1..Len(ants) :
          /\ ants[k].Delay >= 1
          /\ ants[k].Delay = EdgeCount(ants[k].Path) - 1

\* the ants with their delays blanked
WithoutDelay(s) == [i \in 1..Len(s) |-> [s[i] EXCEPT !.Delay = 0]]

\* the ants, those that have departed given a delay that has not elapsed
DepartedDelayed(s, currentTurn) ==
    [i \in 1..Len(s) |->
        IF s[i].Position > -1 THEN [s[i] EXCEPT !.Delay = currentTurn + 1] ELSE s[i]]

\* the tokens a step of the simulation added to the log
TurnLine == IF Len(moves') > Len(moves) THEN moves'[Len(moves')] ELSE <<>>

\* C25: turns are counted from 0 and a turn counts whether or not it wrote a
\* line; an ant of delay d is not departed before turn d and does not move in
\* the turns before it; in turn d it is not held back by its delay; and the
\* delay of a departed ant has no influence on a turn
C25_DelayElapses ==
    [][(pc = "simulate" /\ \A i \in 1..Len(ants) : ants[i] # NilAnt) =>
          /\ pc' = "simulate" => turn' = turn + 1
          /\ \A i \in 1..Len(ants) :
                LET before == ants[i]
                    after  == AntWithID(ants', before.ID)
                IN  /\ before.Position > -1 => before.Delay < turn
                    /\ (before.Position = -1 /\ before.Delay > turn) =>
                            /\ after.Position = -1
                            /\ \A k \in 1..Len(TurnLine) : TurnLine[k][2] # before.ID
                    /\ (before.Position = -1 /\ before.Delay <= turn) =>
                            after.Position = 0
          /\ LET t == simulateTurn(DepartedDelayed(ants, turn), c, turn)
             IN  /\ WithoutDelay(t.ants) = WithoutDelay(ants')
                 /\ t.turnMoves = TurnLine]_vars

\* C25 witness: after the first turn, which wrote no line, one ant is still
\* held back by its delay while an ant that had to wait has departed
C25_Witness ==
    /\ pc = "simulate"
    /\ turn >= 1
    /\ \E i, j \in 1..Len(ants) :
          /\ ants[i].Position = -1 /\ ants[i].Delay > turn
          /\ ants[j].Position > -1 /\ ants[j].Delay >= 1

\* a line that is neither blank nor a comment; the two markers are set apart
Consuming(line) == line # <<>> /\ ~HasPrefix(line, <<"#">>)

\* a line <name1>-<name2>
EdgeLine(line) ==
    /\ Consuming(line)
    /\ ~Contains(line, " ")
    /\ Len(Split(line, "-")) = 2

\* the last of the lines that is a marker or neither blank nor a comment
RECURSIVE LastSignificant(_)
LastSignificant(lines) ==
    IF lines = <<>> THEN <<>>
    ELSE LET line == lines[Len(lines)]
         IN  IF Consuming(line) \/ line \in {StartMark, EndMark} THEN line
             ELSE LastSignificant(SubSeq(lines, 1, Len(lines) - 1))

\* C26: while one of the two flags is pending, the next line read that is
\* neither blank nor a comment clears it, an edge line as well; and the room a
\* node line defines right after an edge line is neither the start nor the end
\* room
C26_FlagConsumed ==
    [][(pc = "parseRooms" /\ pc' = "parseRooms" /\ Len(c'.Input) = Len(c.Input) + 1) =>
          LET line == c'.Input[Len(c'.Input)]
          IN  /\ (Consuming(line) /\ ~(expectingStart /\ expectingEnd)) =>
                     ~expectingStart' /\ ~expectingEnd'
              /\ (NodeLine(line) /\ EdgeLine(LastSignificant(c.Input))) =>
                     LET name == Str(Fields(line)[1])
                     IN  /\ ~c'.Rooms[name].IsStart
                         /\ ~c'.Rooms[name].IsEnd]_vars

====
